---- MODULE Spec2Model ----
(***************************************************************************)
(* Model of CircularBuffer<T> (src/src/index.ts): a fixed-capacity ring    *)
(* buffer over a JavaScript array, with a write index and a `filled` flag. *)
(*                                                                         *)
(* One object is modelled, from its construction on.  The object is the    *)
(* record `this`; each method is an operator on such a record (its first   *)
(* parameter b is the method's `this`), giving what the method returns     *)
(* or the object it leaves, and each mutating method is an action that     *)
(* applies its operator to `this`.                                         *)
(***************************************************************************)
EXTENDS Integers, Sequences, FiniteSets, TLC

\* ---- bounds of the model ----
MaxCapacity == 3      \* largest capacity passed to the constructor
MaxBelow == 3         \* how many capacities below MinCapacity are tried
MaxVal == 2           \* stored values are 1..MaxVal
IndexSlack == 1       \* indexes tried: -(capacity+IndexSlack)..(capacity+IndexSlack)
MaxHist == 5          \* longest recorded run of puts after construction
PairCapacity == 3     \* largest capacity of the buffer compared with a fresh one
MaxJunk == 3          \* calls made on that buffer before the compared clear()
MaxSeq == 3           \* calls made on both buffers after the compared clear()
IterCapacity == 3     \* largest capacity of the buffer that is iterated step by step
MaxIters == 2         \* iteration sequences started on that buffer
MaxMuts == 3          \* put/putAt/clear calls made on that buffer

\* ---- program constants ----
MinCapacity == 2      \* `if (capacity < 2)` in the constructor
Undef == 0            \* JavaScript `undefined`: what a hole of new Array(n) reads as

Values == 1..MaxVal
CapacityArgs == (MinCapacity - MaxBelow)..MaxCapacity

VARIABLES
  alive,   \* TRUE once the constructor has returned normally
  this,    \* the object: capacity, buffer, props, filled, writeIndex
  last,    \* the last constructor or mutator call: operation and outcome
  hist,    \* the values put since construction, while nothing else mutated
  pure,    \* TRUE while hist is the whole mutation history of the object
  fresh,   \* a second object, constructed when `this` is cleared
  paired,  \* TRUE while fresh receives the same calls as `this`
  agree,   \* TRUE while those calls had the same outcome on both objects
  calls,   \* number of calls counted so far in the current phase
  iters    \* the generators returned by [Symbol.iterator](), in creation order

pairVars == <<fresh, paired, agree, calls>>
vars == <<alive, this, last, hist, pure, fresh, paired, agree, calls, iters>>

\* a call that returned normally / a call that threw
Returned(op) == [op |-> op, err |-> "none"]

Threw(op, err) == [op |-> op, err |-> err]

Abs(n) == IF n < 0 THEN -n ELSE n

\* JavaScript `a % b` for b > 0: the remainder takes the sign of the dividend
JsRem(a, b) == IF a >= 0 THEN a % b ELSE -((-a) % b)

\* ---- the JavaScript array: its elements are a function on 0..length-1 ----

ArrayLength(arr) == Cardinality(DOMAIN arr)

\* new Array<T>(n): n holes
NewArray(n) == [k \in 0..(n - 1) |-> Undef]

\* arr[key]: an element read; a hole or a missing element reads as undefined
ArrayGet(arr, key) == IF key \in DOMAIN arr THEN arr[key] ELSE Undef

\* arr[key] = val for key >= 0: the array grows to key+1 when key >= length
ArraySet(arr, key, val) ==
  IF key \in DOMAIN arr
    THEN [arr EXCEPT ![key] = val]
    ELSE [k \in 0..key |-> IF k = key THEN val ELSE ArrayGet(arr, k)]

\* Array.prototype.at(n): negative n counts back from length
ArrayAt(arr, n) ==
  LET k == IF n >= 0 THEN n ELSE ArrayLength(arr) + n
  IN IF k < 0 \/ k >= ArrayLength(arr) THEN Undef ELSE arr[k]

\* ---- the object ----

\* the fields after the constructor: buffer is the array's elements; props is
\* the set of keys of the non-index properties assigned on the array.  A
\* negative key makes such a property; no method reads one back (the generator
\* reads buffer[i] for i >= 0 only, and Array.at(n) reads element length+n).
NewBuffer(cap) ==
  [capacity |-> cap, buffer |-> NewArray(cap), props |-> {},
   filled |-> FALSE, writeIndex |-> 0]

\* the value of `this` before any object exists
NoBuffer == NewBuffer(0)

\* isEmpty that looks at the write index only
isEmpty_ignoresFilled(b) == b.writeIndex = 0

\* isEmpty()
isEmpty(b) == ~b.filled /\ b.writeIndex = 0

isFull(b) == b.filled

\* size() that forgets the filled flag
size_ignoresFilled(b) == b.writeIndex

size(b) == IF isFull(b) THEN b.capacity ELSE b.writeIndex

\* the range test without Math.abs
relativeIndexThrows_noAbs(b, index) == index > b.capacity

\* relativeIndex throws exactly when its first test succeeds
relativeIndexThrows(b, index) == Abs(index) > b.capacity

\* relativeIndex that forgets the write index of a full buffer
relativeIndex_noOffset(b, index) == IF index < 0 THEN size(b) + index ELSE index

\* relativeIndex when it returns
relativeIndex(b, index) ==
  LET index1 == IF index < 0 THEN size(b) + index ELSE index
  IN IF ~isFull(b) THEN index1 ELSE JsRem(index1 + b.writeIndex, b.capacity)

\* at(index) throws when relativeIndex does
atThrows(b, index) == relativeIndexThrows(b, index)

\* at(index) when it returns
at(b, index) == ArrayAt(b.buffer, relativeIndex(b, index))

\* the full branch of the generator: `capacity` reads starting at index
RECURSIVE iterateFull(_, _, _)
iterateFull(b, index, i) ==
  IF i < b.capacity
    THEN <<ArrayGet(b.buffer, index)>>
           \o iterateFull(b, JsRem(index + 1, b.capacity), i + 1)
    ELSE <<>>

\* the not-full branch of the generator: reads 0..writeIndex-1
RECURSIVE iteratePartial(_, _)
iteratePartial(b, i) ==
  IF i < b.writeIndex
    THEN <<ArrayGet(b.buffer, i)>> \o iteratePartial(b, i + 1)
    ELSE <<>>

\* a generator whose full branch stops one element early
iterator_stopsEarly(b) ==
  IF ~isFull(b) THEN iteratePartial(b, 0) ELSE iterateFull(b, b.writeIndex, 1)

\* a generator that starts a full buffer at slot 0
iterator_fromZero(b) ==
  IF ~isFull(b) THEN iteratePartial(b, 0) ELSE iterateFull(b, 0, 0)

\* the generator run to completion, with no call in between
iterator(b) ==
  IF ~isFull(b) THEN iteratePartial(b, 0) ELSE iterateFull(b, b.writeIndex, 0)

toArray(b) == iterator(b)

\* forEach with a callback that records its arguments: <<data, index>> pairs
forEach(b) == [k \in 1..Len(iterator(b)) |-> <<iterator(b)[k], k - 1>>]

\* this.buffer[key] = val: an element for key >= 0, a plain property otherwise
Store(b, key, val) ==
  IF key >= 0
    THEN [b EXCEPT !.buffer = ArraySet(b.buffer, key, val)]
    ELSE [b EXCEPT !.props = b.props \cup {key}]

\* put that wraps one write too late
put_wrapsLate(b, val) ==
  LET written == Store(b, b.writeIndex, val)
  IN IF b.writeIndex + 1 > b.capacity
       THEN [written EXCEPT !.writeIndex = 0, !.filled = TRUE]
       ELSE [written EXCEPT !.writeIndex = b.writeIndex + 1]

\* put whose filled flag follows the last write instead of sticking
put_unsticky(b, val) ==
  LET written == Store(b, b.writeIndex, val)
  IN IF b.writeIndex + 1 >= b.capacity
       THEN [written EXCEPT !.writeIndex = 0, !.filled = TRUE]
       ELSE [written EXCEPT !.writeIndex = b.writeIndex + 1, !.filled = FALSE]

\* put that sets filled at the wrap but forgets to reset the write index
put_noReset(b, val) ==
  LET written == Store(b, b.writeIndex, val)
  IN IF b.writeIndex + 1 >= b.capacity
       THEN [written EXCEPT !.writeIndex = b.writeIndex + 1, !.filled = TRUE]
       ELSE [written EXCEPT !.writeIndex = b.writeIndex + 1]

\* put that wraps one write too early
put_fillsEarly(b, val) ==
  LET written == Store(b, b.writeIndex, val)
  IN IF b.writeIndex + 1 >= b.capacity - 1
       THEN [written EXCEPT !.writeIndex = 0, !.filled = TRUE]
       ELSE [written EXCEPT !.writeIndex = b.writeIndex + 1]

\* the object after put(val)
put(b, val) ==
  LET written == Store(b, b.writeIndex, val)
  IN IF b.writeIndex + 1 >= b.capacity
       THEN [written EXCEPT !.writeIndex = 0, !.filled = TRUE]
       ELSE [written EXCEPT !.writeIndex = b.writeIndex + 1]

\* putAt(val, index) throws when relativeIndex does, before the write
putAtThrows(b, index) == relativeIndexThrows(b, index)

\* putAt that advances the write index like put
putAt_advances(b, val, index) ==
  IF putAtThrows(b, index)
    THEN b
    ELSE put(Store(b, relativeIndex(b, index), val), val)

\* the object after putAt(val, index), returned or thrown
putAt(b, val, index) ==
  IF putAtThrows(b, index)
    THEN b
    ELSE Store(b, relativeIndex(b, index), val)

\* clear that leaves the filled flag set
clear_keepsFilled(b) == [b EXCEPT !.writeIndex = 0]

\* clear that leaves the write index where it was
clear_keepsIndex(b) == [b EXCEPT !.filled = FALSE]

\* the object after clear()
clear(b) == [b EXCEPT !.writeIndex = 0, !.filled = FALSE]

\* b after put-ing the elements of seq in order
RECURSIVE putAll(_, _)
putAll(b, seq) ==
  IF seq = <<>> THEN b ELSE putAll(put(b, Head(seq)), Tail(seq))

\* ---- the calls ----

Indexes == -(this.capacity + IndexSlack)..(this.capacity + IndexSlack)

TypeOK ==
  /\ alive \in BOOLEAN
  /\ this.capacity \in 0..MaxCapacity
  /\ this.filled \in BOOLEAN
  /\ this.writeIndex \in Nat
  /\ DOMAIN this.buffer \subseteq Nat
  /\ \A k \in this.props : k < 0
  /\ pure \in BOOLEAN

Init ==
  /\ alive = FALSE
  /\ this = NoBuffer
  /\ last = Returned("none")
  /\ hist = <<>>
  /\ pure = FALSE
  /\ fresh = NoBuffer
  /\ paired = FALSE
  /\ agree = TRUE
  /\ calls = 0
  /\ iters = <<>>

\* a constructor whose test is `capacity < 1`
constructor_acceptsOne(cap) ==
  /\ ~alive
  /\ IF cap < MinCapacity - 1
       THEN /\ last' = Threw("new", "InvalidArgument")
            /\ UNCHANGED <<alive, this, hist, pure>>
       ELSE /\ alive' = TRUE
            /\ this' = NewBuffer(cap)
            /\ last' = Returned("new")
            /\ hist' = <<>>
            /\ pure' = TRUE

\* new CircularBuffer(cap)
constructor(cap) ==
  /\ ~alive
  /\ IF cap < MinCapacity
       THEN /\ last' = Threw("new", "InvalidArgument")
            /\ UNCHANGED <<alive, this, hist, pure>>
       ELSE /\ alive' = TRUE
            /\ this' = NewBuffer(cap)
            /\ last' = Returned("new")
            /\ hist' = <<>>
            /\ pure' = TRUE

\* the record of puts: kept while puts are the only mutations, up to MaxHist
HistPut(val) ==
  IF pure /\ Len(hist) < MaxHist
    THEN hist' = Append(hist, val) /\ pure' = TRUE
    ELSE hist' = <<>> /\ pure' = FALSE

HistStop == hist' = <<>> /\ pure' = FALSE

\* this.put(val)
Put(val) ==
  /\ alive
  /\ this' = put(this, val)
  /\ last' = Returned("put")
  /\ HistPut(val)
  /\ UNCHANGED alive

\* this.putAt(val, index)
PutAt(val, index) ==
  /\ alive
  /\ this' = putAt(this, val, index)
  /\ IF putAtThrows(this, index)
       THEN last' = Threw("putAt", "IndexOutOfRange") /\ UNCHANGED <<hist, pure>>
       ELSE last' = Returned("putAt") /\ HistStop
  /\ UNCHANGED alive

\* this.clear()
Clear ==
  /\ alive
  /\ this' = clear(this)
  /\ last' = Returned("clear")
  /\ HistStop
  /\ UNCHANGED alive

Next ==
  /\ \/ \E cap \in CapacityArgs : constructor(cap)
     \/ \E val \in Values : Put(val)
     \/ \E val \in Values : \E index \in Indexes : PutAt(val, index)
     \/ Clear
  /\ UNCHANGED <<pairVars, iters>>

Spec == Init /\ [][Next]_vars

\* ---- one object that is cleared, next to a freshly constructed one ----

PairCapacityArgs == (MinCapacity - 1)..PairCapacity

\* new CircularBuffer(cap), the object that will be cleared
PairNew(cap) == constructor(cap) /\ UNCHANGED pairVars

\* the values of the calls made before the compared clear(): one value that
\* no later call writes, so that a stale slot showing through is always seen
Junk == MaxVal + 1
PairValues == IF paired THEN Values ELSE {Junk}

\* this.put(val); once paired, fresh.put(val) too
PairPut(val) ==
  /\ alive
  /\ calls < (IF paired THEN MaxSeq ELSE MaxJunk)
  /\ this' = put(this, val)
  /\ fresh' = IF paired THEN put(fresh, val) ELSE fresh
  /\ calls' = calls + 1
  /\ UNCHANGED <<alive, last, hist, pure, paired, agree>>

\* this.putAt(val, index); once paired, fresh.putAt(val, index) too, and the
\* two outcomes (return or IndexOutOfRange) are compared
PairPutAt(val, index) ==
  /\ alive
  /\ calls < (IF paired THEN MaxSeq ELSE MaxJunk)
  /\ this' = putAt(this, val, index)
  /\ fresh' = IF paired THEN putAt(fresh, val, index) ELSE fresh
  /\ agree' = (agree /\ (paired => putAtThrows(this, index) = putAtThrows(fresh, index)))
  /\ calls' = calls + 1
  /\ UNCHANGED <<alive, last, hist, pure, paired>>

\* this.clear(); once paired, fresh.clear() too
PairClear ==
  /\ alive
  /\ calls < (IF paired THEN MaxSeq ELSE MaxJunk)
  /\ this' = clear(this)
  /\ fresh' = IF paired THEN clear(fresh) ELSE fresh
  /\ calls' = calls + 1
  /\ UNCHANGED <<alive, last, hist, pure, paired, agree>>

\* this.clear() followed by fresh = new CircularBuffer(this.capacity): from
\* here on both objects receive the same calls
PairStart ==
  /\ alive
  /\ ~paired
  /\ this' = clear(this)
  /\ fresh' = NewBuffer(this.capacity)
  /\ paired' = TRUE
  /\ calls' = 0
  /\ UNCHANGED <<alive, last, hist, pure, agree>>

NextPair ==
  /\ \/ \E cap \in PairCapacityArgs : PairNew(cap)
     \/ \E val \in PairValues : PairPut(val)
     \/ \E val \in PairValues : \E index \in Indexes : PairPutAt(val, index)
     \/ PairClear
     \/ PairStart
  /\ UNCHANGED iters

SpecPair == Init /\ [][NextPair]_vars

\* ---- the generator, one next() at a time ----

\* A generator object: where its body is suspended (phase) and its locals i
\* and index.  Beside them the model keeps what is left of toArray() as it
\* was at the generator's first next() (rest), whether every value yielded so
\* far was the next element of that array (same; rest is dropped once it is
\* not), and whether no put/putAt/clear was called since the first next()
\* (clean).
NewGenerator ==
  [phase |-> "start", i |-> 0, index |-> 0, rest |-> <<>>, same |-> TRUE,
   clean |-> TRUE]

\* `yield val` with the body suspended at phase, i, index
Yield(g, phase, i, index, val) ==
  LET hit == g.same /\ g.rest # <<>> /\ Head(g.rest) = val
  IN [g EXCEPT !.phase = phase, !.i = i, !.index = index, !.same = hit,
               !.rest = IF hit THEN Tail(g.rest) ELSE <<>>]

\* the generator's body returns
Return(g) == [g EXCEPT !.phase = "done", !.i = 0, !.index = 0]

\* next() whose full branch starts at slot 0 instead of the write index
generatorNext_fromZero(b, g) ==
  CASE g.phase = "start" ->
         IF ~isFull(b)
           THEN IF 0 < b.writeIndex
                  THEN Yield(g, "partial", 0, 0, ArrayGet(b.buffer, 0))
                  ELSE Return(g)
           ELSE IF 0 < b.capacity
                  THEN Yield(g, "full", 0, 0, ArrayGet(b.buffer, 0))
                  ELSE Return(g)
    [] g.phase = "partial" ->
         IF g.i + 1 < b.writeIndex
           THEN Yield(g, "partial", g.i + 1, 0, ArrayGet(b.buffer, g.i + 1))
           ELSE Return(g)
    [] g.phase = "full" ->
         LET index == JsRem(g.index + 1, b.capacity)
         IN IF g.i + 1 < b.capacity
              THEN Yield(g, "full", g.i + 1, index, ArrayGet(b.buffer, index))
              ELSE Return(g)
    [] OTHER -> g

\* the generator after one next(): it runs the body of iterator() from where
\* it is suspended to the next yield or to the return, reading the fields of
\* the buffer as they are now
generatorNext(b, g) ==
  CASE g.phase = "start" ->
         IF ~isFull(b)
           THEN IF 0 < b.writeIndex
                  THEN Yield(g, "partial", 0, 0, ArrayGet(b.buffer, 0))
                  ELSE Return(g)
           ELSE IF 0 < b.capacity
                  THEN Yield(g, "full", 0, b.writeIndex,
                             ArrayGet(b.buffer, b.writeIndex))
                  ELSE Return(g)
    [] g.phase = "partial" ->
         IF g.i + 1 < b.writeIndex
           THEN Yield(g, "partial", g.i + 1, 0, ArrayGet(b.buffer, g.i + 1))
           ELSE Return(g)
    [] g.phase = "full" ->
         LET index == JsRem(g.index + 1, b.capacity)
         IN IF g.i + 1 < b.capacity
              THEN Yield(g, "full", g.i + 1, index, ArrayGet(b.buffer, index))
              ELSE Return(g)
    [] OTHER -> g

Running(g) == g.phase \in {"partial", "full"}

\* the generators after a put/putAt/clear call on the buffer
Touched(gs) ==
  [k \in DOMAIN gs |-> IF Running(gs[k]) THEN [gs[k] EXCEPT !.clean = FALSE]
                                         ELSE gs[k]]

IterCapacityArgs == (MinCapacity - 1)..IterCapacity

\* the value stored by the next put or putAt: every call stores a new value,
\* so that each yielded value tells which call wrote it
IterValue == calls + 1

IterFrame == <<last, hist, pure, fresh, paired, agree>>

\* new CircularBuffer(cap), the object that is iterated
IterNew(cap) == constructor(cap) /\ UNCHANGED <<pairVars, iters>>

\* this[Symbol.iterator](): a new generator, suspended before its first line
IterCreate ==
  /\ alive
  /\ Len(iters) < MaxIters
  /\ iters' = Append(iters, NewGenerator)
  /\ UNCHANGED <<alive, this, calls, IterFrame>>

\* next() on generator k
IterNext(k) ==
  /\ alive
  /\ iters[k].phase # "done"
  /\ iters' = [iters EXCEPT ![k] =
                 generatorNext(this,
                   IF @.phase = "start" THEN [@ EXCEPT !.rest = toArray(this)]
                                        ELSE @)]
  /\ UNCHANGED <<alive, this, calls, IterFrame>>

\* this.put(val), before, between or after next() calls
IterPut ==
  /\ alive
  /\ calls < MaxMuts
  /\ this' = put(this, IterValue)
  /\ iters' = Touched(iters)
  /\ calls' = calls + 1
  /\ UNCHANGED <<alive, IterFrame>>

\* this.putAt(val, index), before, between or after next() calls
IterPutAt(index) ==
  /\ alive
  /\ calls < MaxMuts
  /\ this' = putAt(this, IterValue, index)
  /\ iters' = Touched(iters)
  /\ calls' = calls + 1
  /\ UNCHANGED <<alive, IterFrame>>

\* this.clear(), before, between or after next() calls
IterClear ==
  /\ alive
  /\ calls < MaxMuts
  /\ this' = clear(this)
  /\ iters' = Touched(iters)
  /\ calls' = calls + 1
  /\ UNCHANGED <<alive, IterFrame>>

NextIter ==
  \/ \E cap \in IterCapacityArgs : IterNew(cap)
  \/ IterCreate
  \/ \E k \in DOMAIN iters : IterNext(k)
  \/ IterPut
  \/ \E index \in Indexes : IterPutAt(index)
  \/ IterClear

SpecIter == Init /\ [][NextIter]_vars

\* ---------------------------------------------------------------------
\* Properties
\* ---------------------------------------------------------------------

Min(m, n) == IF m < n THEN m ELSE n

\* index addresses a live element of b: 0..size-1 or -size..-1
Live(b, index) ==
  (0 <= index /\ index < size(b)) \/ (index < 0 /\ -size(b) <= index)

\* the index after sign normalization; for a live index, its FIFO position
Normalized(b, index) == IF index >= 0 THEN index ELSE size(b) + index

\* C1: after put-ing capacity + m values (m >= 0) into a fresh buffer,
\* toArray() is the last `capacity` of them, oldest first.
C1_OverwriteLaw ==
  (alive /\ pure /\ Len(hist) >= this.capacity)
    => toArray(this) = SubSeq(hist, Len(hist) - this.capacity + 1, Len(hist))

C1_Witness ==
  /\ alive /\ pure /\ this.capacity = 3 /\ Len(hist) = 5
  /\ hist[1] # hist[3]
  /\ toArray(this) = SubSeq(hist, 3, 5)

\* C2: in every state reached through put/putAt/clear, put(v) appends v to the
\* FIFO contents when the buffer is not full and drops exactly the oldest
\* element when it is full; the call returns normally.
C2_PutStep ==
  /\ alive => \A val \in Values :
       toArray(put(this, val)) =
         (IF isFull(this) THEN Tail(toArray(this)) ELSE toArray(this)) \o <<val>>
  /\ last.op = "put" => last.err = "none"

C2_Witness ==
  /\ alive /\ ~pure /\ last.op = "put" /\ this.filled /\ this.writeIndex = 1
  /\ this.capacity = 3 /\ toArray(this)[1] # toArray(this)[2]

\* C3: after exactly k puts into a fresh buffer, size() = min(k, capacity),
\* isFull() iff k >= capacity, isEmpty() iff k = 0.
C3_SizeAfterPuts ==
  (alive /\ pure) =>
    /\ size(this) = Min(Len(hist), this.capacity)
    /\ isFull(this) <=> (Len(hist) >= this.capacity)
    /\ isEmpty(this) <=> (Len(hist) = 0)

C3_Witness ==
  /\ alive /\ pure /\ Len(hist) > this.capacity
  /\ size(this) = this.capacity /\ isFull(this)

\* C4: for a live index, at agrees with iteration order: at(i) = toArray()[i]
\* for i in 0..size-1 and at(-j) = toArray()[size-j] for j in 1..size.
C4_AtAgreesWithIteration ==
  alive => \A index \in Indexes :
    Live(this, index) =>
      /\ ~atThrows(this, index)
      /\ at(this, index) = toArray(this)[Normalized(this, index) + 1]

C4_Witness ==
  /\ alive /\ this.filled /\ this.writeIndex = 2 /\ this.capacity = 3
  /\ at(this, 0) = this.buffer[2] /\ at(this, -1) = this.buffer[1]
  /\ this.buffer[1] # this.buffer[2]

\* C5: at and putAt fail with IndexOutOfRange for every index whose
\* normalized value falls outside [0, capacity).
C5_RangeEnforced ==
  [][alive => \A index \in Indexes :
       (Normalized(this, index) < 0 \/ Normalized(this, index) >= this.capacity) =>
         \A val \in Values :
           PutAt(val, index) =>
             (last'.err = "IndexOutOfRange" /\ atThrows(this, index))]_vars

\* C6: a negative index with size() + index < 0 makes at and putAt fail with
\* IndexOutOfRange, also when abs(index) <= capacity.
C6_NegativeResolvedFails ==
  [][alive => \A index \in Indexes :
       (index < 0 /\ size(this) + index < 0) =>
         \A val \in Values :
           PutAt(val, index) =>
             (last'.err = "IndexOutOfRange" /\ atThrows(this, index))]_vars

\* C7: for every index with abs(index) > capacity, at and putAt fail with
\* IndexOutOfRange, and the failed call changes no field and no slot.
C7_FailedCallAtomic ==
  /\ alive => \A index \in Indexes :
       Abs(index) > this.capacity =>
         /\ atThrows(this, index)
         /\ putAtThrows(this, index)
         /\ \A val \in Values : putAt(this, val, index) = this
  /\ (last.op = "putAt" /\ last.err # "none") => last.err = "IndexOutOfRange"

C7_Witness ==
  /\ alive /\ last.op = "putAt" /\ last.err = "IndexOutOfRange"
  /\ this.filled /\ this.writeIndex > 0

C9_StickyFull ==
  [][alive =>
       /\ (~isFull(this) /\ isFull(this')) =>
            (last'.op = "put" /\ this'.writeIndex = 0)
       /\ (isFull(this) /\ last'.op # "clear") =>
            (isFull(this') /\ size(this') = this.capacity)
       /\ (isFull(this) /\ ~isFull(this')) => last'.op = "clear"]_vars

C9_Witness ==
  /\ alive /\ isFull(this) /\ size(this) = this.capacity
  /\ last.op = "putAt" /\ last.err = "none"

\* C10: putAt never moves the write position or changes size(), isEmpty(),
\* isFull(); with a live index it replaces exactly the element at that
\* position of toArray().
C10_PutAtInPlace ==
  alive =>
    LET before == toArray(this)
    IN \A index \in Indexes, val \in Values :
         LET p == putAt(this, val, index)
         IN /\ p.writeIndex = this.writeIndex /\ p.filled = this.filled
            /\ size(p) = size(this)
            /\ isEmpty(p) = isEmpty(this) /\ isFull(p) = isFull(this)
            /\ Live(this, index) =>
                 /\ ~putAtThrows(this, index)
                 /\ toArray(p) =
                      [before EXCEPT ![Normalized(this, index) + 1] = val]

C10_Witness ==
  /\ alive /\ last.op = "putAt" /\ last.err = "none"
  /\ this.filled /\ this.writeIndex = 1 /\ this.capacity = 3
  /\ toArray(this)[1] # toArray(this)[3]

\* C12: put-ing the elements of toArray() in order into a fresh buffer of the
\* same capacity gives a buffer with the same toArray(), size() and isFull().
C12_RoundTrip ==
  alive =>
    LET copy == putAll(NewBuffer(this.capacity), toArray(this))
    IN /\ toArray(copy) = toArray(this)
       /\ size(copy) = size(this)
       /\ isFull(copy) = isFull(this)

C12_Witness ==
  /\ alive /\ ~pure /\ this.filled /\ this.writeIndex = 1 /\ this.capacity = 3
  /\ this.buffer # putAll(NewBuffer(3), toArray(this)).buffer
  /\ toArray(this)[1] # toArray(this)[3]

\* C13: construction with an integer capacity succeeds iff capacity >= 2:
\* a smaller capacity fails with InvalidArgument and yields no buffer, a
\* capacity >= 2 yields a buffer whose storage has exactly capacity slots.
C13_ConstructorGuard ==
  [][\A cap \in CapacityArgs : constructor(cap) =>
       IF cap >= MinCapacity
         THEN /\ alive' /\ last'.err = "none"
              /\ this'.capacity = cap
              /\ DOMAIN this'.buffer = 0..(cap - 1)
              /\ this'.props = {}
         ELSE /\ ~alive' /\ last'.err = "InvalidArgument"
              /\ this' = NoBuffer]_vars

C13_Witness ==
  /\ ~alive /\ last.op = "new" /\ last.err = "InvalidArgument" /\ this = NoBuffer

\* C14: the storage always has exactly capacity slots: every write lands in
\* [0, capacity) and no slot or property is ever added outside that range.
C14_StorageBounded ==
  alive => /\ DOMAIN this.buffer = 0..(this.capacity - 1)
           /\ this.props = {}

\* C15: when putAt(v, index) returns normally, at(index) called right after
\* it returns v.
C15_PutAtThenAt ==
  alive =>
    \A index \in Indexes : \A val \in Values :
      ~putAtThrows(this, index) =>
        /\ ~atThrows(putAt(this, val, index), index)
        /\ at(putAt(this, val, index), index) = val

\* C16: after clear() no value stored before the clear can be read until its
\* slot has been written again: a read that returns normally right after
\* clear() returns no stored value.
C16_ClearHidesStale ==
  (alive /\ last.op = "clear") =>
    \A index \in Indexes :
      ~atThrows(this, index) => at(this, index) = Undef

\* C17: the write position always satisfies 0 <= writeIndex < capacity.
C17_WriteIndexInRange ==
  alive => (0 <= this.writeIndex /\ this.writeIndex < this.capacity)

C17_Witness ==
  /\ alive /\ last.op = "put" /\ this.filled /\ this.writeIndex = 0
  /\ this.capacity = MaxCapacity

\* the three states of the buffer
State(b) ==
  IF b.filled THEN "Full" ELSE IF b.writeIndex = 0 THEN "Empty" ELSE "Partial"

\* C18: a fresh buffer is Empty; put takes Empty to Partial (never to Full),
\* Partial to Partial or Full, and Full to Full; clear takes every state to
\* Empty; putAt never changes the state; no other transition happens.
C18_StateMachine ==
  [][alive' =>
       /\ last'.op = "new" => State(this') = "Empty"
       /\ last'.op = "put" =>
            /\ State(this) = "Empty" => State(this') = "Partial"
            /\ State(this) = "Partial" => State(this') \in {"Partial", "Full"}
            /\ State(this) = "Full" => State(this') = "Full"
       /\ last'.op = "clear" => State(this') = "Empty"
       /\ last'.op = "putAt" => State(this') = State(this)]_vars

C18_Witness ==
  /\ alive /\ last.op = "put" /\ State(this) = "Full"
  /\ pure /\ Len(hist) = this.capacity

\* C19: 0 <= size() <= capacity, toArray() has exactly size() elements,
\* isEmpty() iff size() = 0, and isFull() iff size() = capacity.
C19_ObserverConsistency ==
  alive =>
    /\ 0 <= size(this) /\ size(this) <= this.capacity
    /\ Len(toArray(this)) = size(this)
    /\ isEmpty(this) <=> (size(this) = 0)
    /\ isFull(this) <=> (size(this) = this.capacity)

C19_Witness ==
  /\ alive /\ last.op = "putAt" /\ last.err = "none"
  /\ isFull(this) /\ this.writeIndex = 0 /\ this.props # {}

\* C20: after clear(), every sequence of put, putAt and clear calls has the
\* same outcomes and gives the same size(), isEmpty(), isFull() and toArray()
\* as the same sequence applied to a freshly constructed buffer of the same
\* capacity.
C20_ClearedLikeFresh ==
  paired =>
    /\ agree
    /\ size(this) = size(fresh)
    /\ isEmpty(this) = isEmpty(fresh)
    /\ isFull(this) = isFull(fresh)
    /\ toArray(this) = toArray(fresh)
    /\ \A index \in Indexes : putAtThrows(this, index) = putAtThrows(fresh, index)

C20_Witness ==
  /\ paired /\ calls = MaxSeq
  /\ isFull(this) /\ this.writeIndex = 1
  /\ this.buffer # fresh.buffer
  /\ this.props # fresh.props

\* C11 as stated: every finished iteration has yielded exactly the FIFO
\* contents the buffer had when the iteration started, whatever was called
\* between its steps.
C11_IterationSnapshot ==
  \A k \in DOMAIN iters :
    iters[k].phase = "done" => (iters[k].same /\ iters[k].rest = <<>>)

\* C11, amended: any number of iterations can be started and stepped in any
\* order; each one that has no put, putAt or clear call between its first and
\* its last step yields the FIFO contents the buffer had when it started.
C11_IterationUndisturbed ==
  \A k \in DOMAIN iters :
    iters[k].clean =>
      /\ iters[k].same
      /\ iters[k].phase = "done" => iters[k].rest = <<>>

C11_Witness ==
  /\ Len(iters) >= 2
  /\ iters[1].phase = "done" /\ iters[1].clean
  /\ iters[2].phase = "full" /\ iters[2].clean /\ Len(iters[2].rest) = 1
  /\ calls = MaxMuts /\ this.writeIndex = 1

====
